---- MODULE Spec2Model ----
(***************************************************************************)
(* Model of market_stats.py: the loader (read_file), the three aggregation  *)
(* functions (get_total_price, get_total_price_by_name,                     *)
(* get_total_price_by_month) and the sequential pipeline of main.           *)
(*                                                                          *)
(* Strings the code formats and re-parses (dates, month labels) are         *)
(* sequences of one-character strings.  Prices are binary floating point    *)
(* numbers; they are modelled as naturals rounded to MantBits significant   *)
(* bits (round half to even), the way IEEE-754 addition rounds.             *)
(***************************************************************************)
EXTENDS Integers, Sequences, FiniteSets

VARIABLES
    file,                 \* content of steam_history_market.json (raw records)
    padYear,              \* does the platform's strftime zero-pad %Y to 4 digits
    pc,                   \* position of main
    exc,                  \* where an exception escaped ("none" when none did)
    res,                  \* read_file: the list the comprehension has built so far
    market_items,         \* main: market_items (<<>> unassigned, <<v>> assigned)
    total_price,          \* main: total_price
    total_price_by_name,  \* main: total_price_by_name
    total_month_price,    \* main: total_month_price
    totals,               \* get_total_price_by_month: totals
    idx,                  \* get_total_price_by_month: position of `for item in items`
    current,              \* get_total_price_by_month: current
    end,                  \* get_total_price_by_month: end
    iters,                \* executions of the while body for the current item
    printed,              \* the tables were printed
    charts                \* chart files written

vars == <<file, padYear, pc, exc, res, market_items, total_price,
          total_price_by_name, total_month_price, totals, idx, current, end,
          iters, printed, charts>>

\* ------------------------------------------------------------------ bounds
MaxItems == 3        \* records in a file of the name/price family
MaxDateItems == 2    \* records in a file of the date family
MaxSpan == 3         \* longest listed-to-acted distance in months of an input
MantBits == 3        \* significant bits of the modelled float (53 in a double)

\* ------------------------------------------------------------- characters
Digits10 == <<"0", "1", "2", "3", "4", "5", "6", "7", "8", "9">>

IsDigit(c) == \E i \in 1..10 : Digits10[i] = c

DigitVal(c) == (CHOOSE i \in 1..10 : Digits10[i] = c) - 1

AllDigits(tok) == \A i \in 1..Len(tok) : IsDigit(tok[i])

RECURSIVE NumVal(_)
NumVal(tok) ==
    IF tok = <<>> THEN 0
    ELSE 10 * NumVal(SubSeq(tok, 1, Len(tok) - 1)) + DigitVal(tok[Len(tok)])

RECURSIVE DigitsOf(_)
DigitsOf(n) ==
    IF n < 10 THEN <<Digits10[n + 1]>>
    ELSE DigitsOf(n \div 10) \o <<Digits10[(n % 10) + 1]>>

RECURSIVE ZeroPad(_, _)
ZeroPad(tok, width) ==
    IF Len(tok) >= width THEN tok ELSE ZeroPad(<<"0">> \o tok, width)

\* %b in the C locale
MonthAbbr == << <<"J", "a", "n">>, <<"F", "e", "b">>, <<"M", "a", "r">>,
                <<"A", "p", "r">>, <<"M", "a", "y">>, <<"J", "u", "n">>,
                <<"J", "u", "l">>, <<"A", "u", "g">>, <<"S", "e", "p">>,
                <<"O", "c", "t">>, <<"N", "o", "v">>, <<"D", "e", "c">> >>

IsMonthAbbr(tok) == \E m \in 1..12 : MonthAbbr[m] = tok

MonthOfAbbr(tok) == CHOOSE m \in 1..12 : MonthAbbr[m] = tok

\* ------------------------------------------------------------------ dates
MinYear == 1
MaxYear == 9999

IsLeap(y) == (y % 4 = 0) /\ ((y % 100 # 0) \/ (y % 400 = 0))

DaysInMonth(y, m) ==
    IF m = 2 THEN (IF IsLeap(y) THEN 29 ELSE 28)
    ELSE IF m \in {4, 6, 9, 11} THEN 30 ELSE 31

Date(y, m, d) == [year |-> y, month |-> m, day |-> d]

NoDate == [year |-> 0, month |-> 0, day |-> 0]

\* datetime.__le__ on dates whose time of day is midnight
DateLE(a, b) ==
    \/ a.year < b.year
    \/ a.year = b.year /\ a.month < b.month
    \/ a.year = b.year /\ a.month = b.month /\ a.day <= b.day

DateLT(a, b) == DateLE(a, b) /\ a # b

\* datetime.strptime(s.strip(), "%d %b %Y"); s is given as its
\* whitespace-separated fields.  [ok |-> FALSE] stands for ValueError.
ParseDate(raw) ==
    IF /\ Len(raw) = 3
       /\ Len(raw[1]) \in {1, 2} /\ AllDigits(raw[1]) /\ NumVal(raw[1]) \in 1..31
       /\ IsMonthAbbr(raw[2])
       /\ Len(raw[3]) = 4 /\ AllDigits(raw[3]) /\ NumVal(raw[3]) >= MinYear
       /\ NumVal(raw[1]) <= DaysInMonth(NumVal(raw[3]), MonthOfAbbr(raw[2]))
    THEN [ok |-> TRUE,
          date |-> Date(NumVal(raw[3]), MonthOfAbbr(raw[2]), NumVal(raw[1]))]
    ELSE [ok |-> FALSE, date |-> NoDate]

\* %Y of strftime: four digits where the platform pads, the plain decimal
\* number where it does not (glibc)
YearText(y, pad) == IF pad THEN ZeroPad(DigitsOf(y), 4) ELSE DigitsOf(y)

\* current.strftime("%Y-%b")
MonthLabel(d, pad) == YearText(d.year, pad) \o <<"-">> \o MonthAbbr[d.month]

\* datetime.strptime(label, "%Y-%b"): exactly four digits, "-", a month
\* abbreviation; the day defaults to 1
ParseLabel(label) ==
    IF /\ Len(label) = 8
       /\ AllDigits(SubSeq(label, 1, 4))
       /\ label[5] = "-"
       /\ IsMonthAbbr(SubSeq(label, 6, 8))
       /\ NumVal(SubSeq(label, 1, 4)) >= MinYear
    THEN [ok |-> TRUE,
          date |-> Date(NumVal(SubSeq(label, 1, 4)),
                        MonthOfAbbr(SubSeq(label, 6, 8)), 1)]
    ELSE [ok |-> FALSE, date |-> NoDate]

\* ----------------------------------------------------------------- floats
RECURSIVE Pow2(_)
Pow2(k) == IF k = 0 THEN 1 ELSE 2 * Pow2(k - 1)

RECURSIVE Exponent(_, _)
Exponent(n, e) == IF n < Pow2(MantBits + e) THEN e ELSE Exponent(n, e + 1)

\* nearest value with MantBits significant bits, ties to the even mantissa
RoundFloat(n) ==
    LET e == Exponent(n, 0)
        u == Pow2(e)
        q == n \div u
        r == n % u
    IN  IF e = 0 THEN n
        ELSE IF (2 * r > u) \/ (2 * r = u /\ q % 2 = 1) THEN (q + 1) * u
        ELSE q * u

\* float.__add__
FAdd(a, b) == RoundFloat(a + b)

\* ----------------------------------------------------------- dictionaries
\* A dict is the sequence of its entries in insertion order; assigning to a
\* key it holds keeps the key's position.
Entry(k, t, c) == [key |-> k, total |-> t, count |-> c]

HasKey(d, k) == \E i \in 1..Len(d) : d[i].key = k

KeyIndex(d, k) == CHOOSE i \in 1..Len(d) : d[i].key = k

Keys(d) == {d[i].key : i \in 1..Len(d)}

\* ------------------------------------------------------------ aggregation
\* sum([x.price for x in items]): sum() starts at 0 and adds left to right
RECURSIVE SumPrices(_, _)
SumPrices(items, n) ==
    IF n = 0 THEN 0 ELSE FAdd(SumPrices(items, n - 1), items[n].price)

get_total_price(items) == SumPrices(items, Len(items))

\* body of `for item in items` of get_total_price_by_name
NameStep(t, item) ==
    IF HasKey(t, item.name)
    THEN LET i == KeyIndex(t, item.name)
         IN  [t EXCEPT ![i] = Entry(item.name, FAdd(t[i].total, item.price),
                                    t[i].count + 1)]
    ELSE Append(t, Entry(item.name, item.price, 1))

RECURSIVE NameLoop(_, _)
NameLoop(items, n) ==
    IF n = 0 THEN <<>> ELSE NameStep(NameLoop(items, n - 1), items[n])

\* sorted(..., key=total, reverse=True) is stable: entries with equal totals
\* keep the order they have in the dict.  x goes behind every entry whose
\* total is at least its own.
InsertDesc(s, x) ==
    LET k == Cardinality({i \in 1..Len(s) : s[i].total >= x.total})
    IN  SubSeq(s, 1, k) \o <<x>> \o SubSeq(s, k + 1, Len(s))

RECURSIVE SortDescLoop(_, _)
SortDescLoop(d, n) ==
    IF n = 0 THEN <<>> ELSE InsertDesc(SortDescLoop(d, n - 1), d[n])

\* a sort that orders ascending and then reverses the list: ties come out
\* in reverse insertion order
InsertAscTotal(s, x) ==
    LET k == Cardinality({i \in 1..Len(s) : s[i].total <= x.total})
    IN  SubSeq(s, 1, k) \o <<x>> \o SubSeq(s, k + 1, Len(s))

RECURSIVE SortAscTotalLoop(_, _)
SortAscTotalLoop(d, n) ==
    IF n = 0 THEN <<>> ELSE InsertAscTotal(SortAscTotalLoop(d, n - 1), d[n])

Reversed(s) == [i \in 1..Len(s) |-> s[Len(s) + 1 - i]]

SortedAscendingThenReversed(d) == Reversed(SortAscTotalLoop(d, Len(d)))

\* the dict returned in insertion order, without the sort
Unsorted(d) == d

SortedByTotalDesc(d) == SortDescLoop(d, Len(d))

\* a loop that keeps only the last price of a name instead of adding
NameStepOverwrite(t, item) ==
    IF HasKey(t, item.name)
    THEN LET i == KeyIndex(t, item.name)
         IN  [t EXCEPT ![i] = Entry(item.name, item.price, t[i].count + 1)]
    ELSE Append(t, Entry(item.name, item.price, 1))

RECURSIVE NameLoopOverwrite(_, _)
NameLoopOverwrite(items, n) ==
    IF n = 0 THEN <<>>
    ELSE NameStepOverwrite(NameLoopOverwrite(items, n - 1), items[n])

NameTotalsOverwrite(items) == NameLoopOverwrite(items, Len(items))

NameTotals(items) == NameLoop(items, Len(items))

get_total_price_by_name(items) == SortedByTotalDesc(NameTotals(items))

\* item.listed_on.replace(day=1)
FirstOfMonth(d) == Date(d.year, d.month, 1)

\* a do-while: the body runs once before the guard is looked at
LoopGuardDoWhile(cur, e) == DateLE(cur, e) \/ iters = 0

\* while current <= end
LoopGuard(cur, e) == DateLE(cur, e)

\* totals[month_str] = (total_price + item.price, count + 1) on a
\* defaultdict whose missing keys read as (0.0, 0)
Accrue(t, label, price) ==
    IF HasKey(t, label)
    THEN LET i == KeyIndex(t, label)
         IN  [t EXCEPT ![i] = Entry(label, FAdd(t[i].total, price),
                                    t[i].count + 1)]
    ELSE Append(t, Entry(label, FAdd(0, price), 1))

\* the cursor's next value; replace(year=MaxYear + 1) raises ValueError
AdvanceRaises(cur) == cur.month = 12 /\ cur.year + 1 > MaxYear

Advance(cur) ==
    IF cur.month = 12 THEN Date(cur.year + 1, 1, 1)
    ELSE Date(cur.year, cur.month + 1, 1)

\* key of the chronological sort
LabelDate(e) == ParseLabel(e.key).date

SortRaises(d) == \E i \in 1..Len(d) : ~ParseLabel(d[i].key).ok

InsertChrono(s, x) ==
    LET k == Cardinality({i \in 1..Len(s) : DateLE(LabelDate(s[i]), LabelDate(x))})
    IN  SubSeq(s, 1, k) \o <<x>> \o SubSeq(s, k + 1, Len(s))

RECURSIVE SortChronoLoop(_, _)
SortChronoLoop(d, n) ==
    IF n = 0 THEN <<>> ELSE InsertChrono(SortChronoLoop(d, n - 1), d[n])

\* a sort on the month of the year alone, the year ignored
InsertByMonthOnly(s, x) ==
    LET k == Cardinality({i \in 1..Len(s) :
                             LabelDate(s[i]).month <= LabelDate(x).month})
    IN  SubSeq(s, 1, k) \o <<x>> \o SubSeq(s, k + 1, Len(s))

RECURSIVE SortByMonthOnlyLoop(_, _)
SortByMonthOnlyLoop(d, n) ==
    IF n = 0 THEN <<>>
    ELSE InsertByMonthOnly(SortByMonthOnlyLoop(d, n - 1), d[n])

SortedByMonthOnly(d) == SortByMonthOnlyLoop(d, Len(d))

SortedByParsedMonth(d) == SortChronoLoop(d, Len(d))

\* ----------------------------------------------------------------- inputs
\* date strings of the input file, as their whitespace-separated fields
R_10Mar2024 == << <<"1", "0">>, <<"M", "a", "r">>, <<"2", "0", "2", "4">> >>
R_15Mar2024 == << <<"1", "5">>, <<"M", "a", "r">>, <<"2", "0", "2", "4">> >>
R_20Dec2023 == << <<"2", "0">>, <<"D", "e", "c">>, <<"2", "0", "2", "3">> >>
R_15Jan2024 == << <<"1", "5">>, <<"J", "a", "n">>, <<"2", "0", "2", "4">> >>
R_31Dec9999 == << <<"3", "1">>, <<"D", "e", "c">>, <<"9", "9", "9", "9">> >>
R_01Jan0999 == << <<"0", "1">>, <<"J", "a", "n">>, <<"0", "9", "9", "9">> >>
R_31Feb2024 == << <<"3", "1">>, <<"F", "e", "b">>, <<"2", "0", "2", "4">> >>

\* 31 Feb is a date string strptime rejects
ListedDates == {R_15Mar2024, R_20Dec2023, R_31Dec9999, R_01Jan0999, R_31Feb2024}

ActedDates == {R_10Mar2024, R_20Dec2023, R_31Dec9999, R_01Jan0999, R_31Feb2024}

Names == {"Key", "Sword", "Case"}

\* 2^MantBits + 1 is the first sum that addition has to round
Prices == {1, Pow2(MantBits)}

MonthIndex(d) == d.year * 12 + d.month

RawRecord(n, p, l, a) == [name |-> n, price |-> p, listed_on |-> l, acted_on |-> a]

\* records that differ in name and price, all listed in December and acted
\* on in the following January
NamePriceRecords ==
    {RawRecord(n, p, R_20Dec2023, R_15Jan2024) : n \in Names, p \in Prices}

\* records that differ in their dates; a record whose dates both parse spans
\* at most MaxSpan months forward (any distance backward)
DateRecords ==
    {RawRecord("Key", 2, l, a) : <<l, a>> \in
        {q \in ListedDates \X ActedDates :
            (ParseDate(q[1]).ok /\ ParseDate(q[2]).ok) =>
                MonthIndex(ParseDate(q[2]).date)
                    - MonthIndex(ParseDate(q[1]).date) <= MaxSpan}}

SeqsUpTo(S, n) == UNION {[1..k -> S] : k \in 0..n}

Files == SeqsUpTo(NamePriceRecords, MaxItems) \cup SeqsUpTo(DateRecords, MaxDateItems)

\* ------------------------------------------------------------------ state
None == <<>>
Some(v) == <<v>>

Init ==
    /\ file \in Files
    /\ padYear \in BOOLEAN
    /\ pc = "read_file"
    /\ exc = "none"
    /\ res = <<>>
    /\ market_items = None
    /\ total_price = None
    /\ total_price_by_name = None
    /\ total_month_price = None
    /\ totals = <<>>
    /\ idx = 0
    /\ current = NoDate
    /\ end = NoDate
    /\ iters = 0
    /\ printed = FALSE
    /\ charts = {}

\* ------------------------------------------------------------- read_file
RecordParses(x) == ParseDate(x.listed_on).ok /\ ParseDate(x.acted_on).ok

MarketItem(x) ==
    [name |-> x.name, price |-> x.price,
     listed_on |-> ParseDate(x.listed_on).date,
     acted_on |-> ParseDate(x.acted_on).date]

\* one element of the list comprehension
ReadRecord ==
    /\ pc = "read_file"
    /\ Len(res) < Len(file)
    /\ RecordParses(file[Len(res) + 1])
    /\ res' = Append(res, MarketItem(file[Len(res) + 1]))
    /\ UNCHANGED <<file, padYear, pc, exc, market_items, total_price,
                   total_price_by_name, total_month_price, totals, idx,
                   current, end, iters, printed, charts>>

\* a loader that swallows the error and hands back the records read so far
ReadReturnPartial ==
    /\ pc = "read_file"
    /\ Len(res) < Len(file)
    /\ ~RecordParses(file[Len(res) + 1])
    /\ market_items' = Some(res)
    /\ pc' = "get_total_price"
    /\ UNCHANGED <<file, padYear, exc, res, total_price, total_price_by_name,
                   total_month_price, totals, idx, current, end, iters,
                   printed, charts>>

\* strptime raises ValueError; nothing in read_file or main catches it
ReadRaise ==
    /\ pc = "read_file"
    /\ Len(res) < Len(file)
    /\ ~RecordParses(file[Len(res) + 1])
    /\ pc' = "raised"
    /\ exc' = "read_file"
    /\ UNCHANGED <<file, padYear, res, market_items, total_price,
                   total_price_by_name, total_month_price, totals, idx,
                   current, end, iters, printed, charts>>

\* return res; market_items = read_file(FILE_NAME)
ReadReturn ==
    /\ pc = "read_file"
    /\ Len(res) = Len(file)
    /\ market_items' = Some(res)
    /\ pc' = "get_total_price"
    /\ UNCHANGED <<file, padYear, exc, res, total_price, total_price_by_name,
                   total_month_price, totals, idx, current, end, iters,
                   printed, charts>>

\* ------------------------------------------------------------------- main
Items == market_items[1]

GetTotalPrice ==
    /\ pc = "get_total_price"
    /\ total_price' = Some(get_total_price(Items))
    /\ pc' = "get_total_price_by_name"
    /\ UNCHANGED <<file, padYear, exc, res, market_items, total_price_by_name,
                   total_month_price, totals, idx, current, end, iters,
                   printed, charts>>

GetTotalPriceByName ==
    /\ pc = "get_total_price_by_name"
    /\ total_price_by_name' = Some(get_total_price_by_name(Items))
    /\ pc' = "by_month_for"
    /\ totals' = <<>>
    /\ idx' = 0
    /\ UNCHANGED <<file, padYear, exc, res, market_items, total_price,
                   total_month_price, current, end, iters, printed, charts>>

\* ------------------------------------------------ get_total_price_by_month
\* for item in items: current = ..., end = ...
MonthForNext ==
    /\ pc = "by_month_for"
    /\ idx < Len(Items)
    /\ current' = FirstOfMonth(Items[idx + 1].listed_on)
    /\ end' = FirstOfMonth(Items[idx + 1].acted_on)
    /\ iters' = 0
    /\ pc' = "by_month_while"
    /\ UNCHANGED <<file, padYear, exc, res, market_items, total_price,
                   total_price_by_name, total_month_price, totals, idx,
                   printed, charts>>

\* one execution of the while body
MonthWhileBody ==
    /\ pc = "by_month_while"
    /\ LoopGuard(current, end)
    /\ ~AdvanceRaises(current)
    /\ totals' = Accrue(totals, MonthLabel(current, padYear), Items[idx + 1].price)
    /\ current' = Advance(current)
    /\ iters' = iters + 1
    /\ UNCHANGED <<file, padYear, pc, exc, res, market_items, total_price,
                   total_price_by_name, total_month_price, idx, end, printed,
                   charts>>

\* the body at December of the last year: the bucket is updated, then
\* replace(year=...) raises ValueError
MonthWhileRaise ==
    /\ pc = "by_month_while"
    /\ LoopGuard(current, end)
    /\ AdvanceRaises(current)
    /\ totals' = Accrue(totals, MonthLabel(current, padYear), Items[idx + 1].price)
    /\ iters' = iters + 1
    /\ pc' = "raised"
    /\ exc' = "by_month_replace"
    /\ UNCHANGED <<file, padYear, res, market_items, total_price,
                   total_price_by_name, total_month_price, idx, current, end,
                   printed, charts>>

\* the guard fails: on to the next item
MonthWhileExit ==
    /\ pc = "by_month_while"
    /\ ~LoopGuard(current, end)
    /\ idx' = idx + 1
    /\ pc' = "by_month_for"
    /\ UNCHANGED <<file, padYear, exc, res, market_items, total_price,
                   total_price_by_name, total_month_price, totals, current,
                   end, iters, printed, charts>>

\* totals_sorted = dict(sorted(...)); return
MonthSort ==
    /\ pc = "by_month_for"
    /\ idx = Len(Items)
    /\ ~SortRaises(totals)
    /\ total_month_price' = Some(SortedByParsedMonth(totals))
    /\ pc' = "print"
    /\ UNCHANGED <<file, padYear, exc, res, market_items, total_price,
                   total_price_by_name, totals, idx, current, end, iters,
                   printed, charts>>

\* a label that strptime rejects: the key function raises ValueError
MonthSortRaise ==
    /\ pc = "by_month_for"
    /\ idx = Len(Items)
    /\ SortRaises(totals)
    /\ pc' = "raised"
    /\ exc' = "by_month_strptime"
    /\ UNCHANGED <<file, padYear, res, market_items, total_price,
                   total_price_by_name, total_month_price, totals, idx,
                   current, end, iters, printed, charts>>

\* ----------------------------------------------------- reporter and charts
Report ==
    /\ pc = "print"
    /\ printed' = TRUE
    /\ pc' = "plot_by_name"
    /\ UNCHANGED <<file, padYear, exc, res, market_items, total_price,
                   total_price_by_name, total_month_price, totals, idx,
                   current, end, iters, charts>>

PlotByName ==
    /\ pc = "plot_by_name"
    /\ charts' = charts \cup {"total_price_by_name.png"}
    /\ pc' = "plot_by_month"
    /\ UNCHANGED <<file, padYear, exc, res, market_items, total_price,
                   total_price_by_name, total_month_price, totals, idx,
                   current, end, iters, printed>>

PlotByMonth ==
    /\ pc = "plot_by_month"
    /\ charts' = charts \cup {"total_price_by_month.png"}
    /\ pc' = "done"
    /\ UNCHANGED <<file, padYear, exc, res, market_items, total_price,
                   total_price_by_name, total_month_price, totals, idx,
                   current, end, iters, printed>>

Next ==
    \/ ReadRecord
    \/ ReadRaise
    \/ ReadReturn
    \/ GetTotalPrice
    \/ GetTotalPriceByName
    \/ MonthForNext
    \/ MonthWhileBody
    \/ MonthWhileRaise
    \/ MonthWhileExit
    \/ MonthSort
    \/ MonthSortRaise
    \/ Report
    \/ PlotByName
    \/ PlotByMonth

Spec == Init /\ [][Next]_vars

\* ================================================================= claims
ByMonthRaised == exc \in {"by_month_replace", "by_month_strptime"}

ByMonthEnded ==
    ByMonthRaised \/ pc \in {"print", "plot_by_name", "plot_by_month", "done"}

\* the item the month walk is at
WalkItem == Items[idx + 1]

InWalk == pc = "by_month_while"

\* ---------------------------------------------------------------------- C1
\* C1 (as stated): while get_total_price_by_month processes a record whose
\* acted_on date is strictly before its listed_on date, no step changes
\* totals: no bucket is created, none gets the price or a count.
C1_ReversedDatesAccrueNothing ==
    [][(InWalk /\ DateLT(WalkItem.acted_on, WalkItem.listed_on))
          => totals' = totals]_vars

\* C1 (amended): a record whose acted_on falls in a calendar month strictly
\* before the month of its listed_on changes no bucket; a record whose
\* acted_on is before its listed_on inside one calendar month leaves the
\* walk after exactly one execution of the body.
C1_ReversedMonthsAccrueNothing ==
    [][/\ (InWalk /\ MonthIndex(WalkItem.acted_on) < MonthIndex(WalkItem.listed_on))
            => totals' = totals
       /\ (/\ InWalk
           /\ DateLT(WalkItem.acted_on, WalkItem.listed_on)
           /\ MonthIndex(WalkItem.acted_on) = MonthIndex(WalkItem.listed_on)
           /\ pc' = "by_month_for")
            => iters = 1]_vars

\* a file whose only record has acted_on in an earlier month than listed_on
\* went through the walk and left totals empty
C1_Witness ==
    /\ pc = "by_month_for"
    /\ idx = 1
    /\ Len(Items) = 1
    /\ MonthIndex(Items[1].acted_on) < MonthIndex(Items[1].listed_on)
    /\ iters = 0
    /\ totals = <<>>

\* ---------------------------------------------------------------------- C2
Spans(item, m) ==
    MonthIndex(item.listed_on) <= m /\ m <= MonthIndex(item.acted_on)

RECURSIVE SumSeq(_)
SumSeq(ps) ==
    IF ps = <<>> THEN 0 ELSE FAdd(SumSeq(SubSeq(ps, 1, Len(ps) - 1)), ps[Len(ps)])

PricesOf(items) == [i \in 1..Len(items) |-> items[i].price]

\* accrual reference: the records spanning month m, in input order
RefMonthTotal(items, m) ==
    LET Spanning(x) == Spans(x, m) IN SumSeq(PricesOf(SelectSeq(items, Spanning)))

RefMonthCount(items, m) == Cardinality({i \in 1..Len(items) : Spans(items[i], m)})

SpannedMonths(items) ==
    UNION {MonthIndex(items[i].listed_on)..MonthIndex(items[i].acted_on) :
             i \in 1..Len(items)}

EqualsAccrualReference(result, items) ==
    /\ \A i \in 1..Len(result) :
          /\ ParseLabel(result[i].key).ok
          /\ LET m == MonthIndex(ParseLabel(result[i].key).date)
             IN  /\ m \in SpannedMonths(items)
                 /\ result[i].total = RefMonthTotal(items, m)
                 /\ result[i].count = RefMonthCount(items, m)
    /\ \A m \in SpannedMonths(items) :
          \E i \in 1..Len(result) : MonthIndex(ParseLabel(result[i].key).date) = m
    /\ \A i, j \in 1..Len(result) : result[i].key = result[j].key => i = j

\* C2 (as stated): for every record sequence, once
\* get_total_price_by_month has ended it has returned a mapping that equals
\* the accrual reference: each spanned month holds the full prices and the
\* number of the records spanning it, and no other month has an entry.
C2_EqualsAccrualReference ==
    ByMonthEnded =>
        /\ total_month_price # None
        /\ EqualsAccrualReference(total_month_price[1], Items)

\* the part of C2 that the code keeps: a mapping that is returned equals the
\* accrual reference
C2_ReturnedEqualsAccrualReference ==
    total_month_price # None => EqualsAccrualReference(total_month_price[1], Items)

\* ---------------------------------------------------------------------- C3
ExpectedIterations(item) ==
    LET n == MonthIndex(item.acted_on) - MonthIndex(item.listed_on) + 1
    IN  IF n > 0 THEN n ELSE 0

\* C3 (as stated): for every file the loader accepts,
\* get_total_price_by_month raises nothing, each month walk leaves the loop
\* after max(0, month distance + 1) iterations, and each iteration moves
\* the cursor to the next calendar month.
C3_WalkTerminatesWithoutRaising ==
    /\ ~ByMonthRaised
    /\ (pc = "by_month_for" /\ idx >= 1) => iters = ExpectedIterations(Items[idx])
    /\ InWalk => MonthIndex(current) = MonthIndex(WalkItem.listed_on) + iters

\* ---------------------------------------------------------------------- C4
NameSet(items) == {items[i].name : i \in 1..Len(items)}

RefNameTotal(items, n) ==
    LET Named(x) == x.name = n IN SumSeq(PricesOf(SelectSeq(items, Named)))

RefNameCount(items, n) == Cardinality({i \in 1..Len(items) : items[i].name = n})

EqualsGroupingReference(result, items) ==
    /\ Keys(result) = NameSet(items)
    /\ \A i \in 1..Len(result) :
          /\ result[i].total = RefNameTotal(items, result[i].key)
          /\ result[i].count = RefNameCount(items, result[i].key)
    /\ \A i, j \in 1..Len(result) : result[i].key = result[j].key => i = j

\* C4: the mapping get_total_price_by_name returns has exactly the distinct
\* names of the input as keys, and each name maps to the sum of the prices
\* and the number of the records of that name; the empty input gives the
\* empty mapping.
C4_EqualsGroupingReference ==
    total_price_by_name # None =>
        EqualsGroupingReference(total_price_by_name[1], Items)

\* a name with two records and another name next to it
C4_Witness ==
    /\ total_price_by_name # None
    /\ Len(total_price_by_name[1]) >= 2
    /\ \E i \in 1..Len(total_price_by_name[1]) :
          /\ total_price_by_name[1][i].count = 2
          /\ total_price_by_name[1][i].total = 2

\* ---------------------------------------------------------------------- C5
TotalsOf(result) == [i \in 1..Len(result) |-> result[i].total]

\* C5 (as stated): get_total_price is the sum of the prices, zero for the
\* empty input, and the totals of get_total_price_by_name summed over all
\* names equal get_total_price of the same input.
C5_NameTotalsSumToTotalPrice ==
    /\ total_price # None =>
          /\ total_price[1] = SumSeq(PricesOf(Items))
          /\ (Items = <<>> => total_price[1] = 0)
    /\ total_price_by_name # None =>
          SumSeq(TotalsOf(total_price_by_name[1])) = total_price[1]

\* ---------------------------------------------------------------------- C6
\* C6: the entries of a returned by-month mapping are in strictly
\* increasing order of the (year, month) their labels parse to.
C6_ChronologicalOrder ==
    total_month_price # None =>
        \A i \in 1..(Len(total_month_price[1]) - 1) :
            /\ ParseLabel(total_month_price[1][i].key).ok
            /\ ParseLabel(total_month_price[1][i + 1].key).ok
            /\ DateLT(ParseLabel(total_month_price[1][i].key).date,
                      ParseLabel(total_month_price[1][i + 1].key).date)

\* buckets were created out of chronological order, across a year boundary
C6_Witness ==
    /\ total_month_price # None
    /\ Len(total_month_price[1]) >= 3
    /\ total_month_price[1] # totals
    /\ \E i, j \in 1..Len(totals) :
          ParseLabel(totals[i].key).date.year # ParseLabel(totals[j].key).date.year

\* ---------------------------------------------------------------------- C7
\* C7: the entries of the by-name mapping are in non-increasing order of
\* total price.
C7_DescendingTotals ==
    total_price_by_name # None =>
        \A i \in 1..(Len(total_price_by_name[1]) - 1) :
            total_price_by_name[1][i].total >= total_price_by_name[1][i + 1].total

\* three names whose first-seen order is not the order of their totals
C7_Witness ==
    /\ total_price_by_name # None
    /\ Len(total_price_by_name[1]) = 3
    /\ total_price_by_name[1] # NameTotals(Items)
    /\ total_price_by_name[1][1].total > total_price_by_name[1][3].total

\* ---------------------------------------------------------------------- C8
\* C8 (as stated): every bucket label of get_total_price_by_month parses
\* back to the (year, month) it was rendered from: the label the walk is
\* about to use for `current` parses to current, and every key of totals
\* parses and renders to itself again.
C8_LabelRoundTrip ==
    /\ (InWalk /\ LoopGuard(current, end)) =>
          /\ ParseLabel(MonthLabel(current, padYear)).ok
          /\ ParseLabel(MonthLabel(current, padYear)).date = current
    /\ \A i \in 1..Len(totals) :
          /\ ParseLabel(totals[i].key).ok
          /\ MonthLabel(ParseLabel(totals[i].key).date, padYear) = totals[i].key

\* ---------------------------------------------------------------------- C9
HasBadDate(f) == \E i \in 1..Len(f) : ~RecordParses(f[i])

Aggregated ==
    /\ total_price # None
    /\ total_price_by_name # None
    /\ total_month_price # None

\* C9: a file with a date string that does not parse yields no record list,
\* no summary, no table and no chart; any aggregation works on the list of
\* the whole file; tables and charts come after all three summaries.
C9_LoadFailureIsFatal ==
    /\ HasBadDate(file) =>
          /\ market_items = None
          /\ total_price = None
          /\ total_price_by_name = None
          /\ total_month_price = None
          /\ totals = <<>>
          /\ ~printed
          /\ charts = {}
    /\ (total_price # None \/ total_price_by_name # None \/ totals # <<>>
            \/ total_month_price # None \/ pc \in {"by_month_for", "by_month_while"})
          => (market_items # None /\ Len(Items) = Len(file))
    /\ (printed \/ charts # {}) => Aggregated

\* the second record of the file is the one that fails to parse
C9_Witness ==
    /\ pc = "raised"
    /\ exc = "read_file"
    /\ Len(res) = 1
    /\ market_items = None

\* --------------------------------------------------------------------- C10
FirstSeen(items, n) == CHOOSE i \in 1..Len(items) :
    items[i].name = n /\ \A j \in 1..(i - 1) : items[j].name # n

\* C10: two names with equal total price appear in the by-name mapping in
\* the order in which their first records occur in the input.
C10_TiesFirstSeen ==
    total_price_by_name # None =>
        \A i, j \in 1..Len(total_price_by_name[1]) :
            (i < j /\ total_price_by_name[1][i].total = total_price_by_name[1][j].total)
                => FirstSeen(Items, total_price_by_name[1][i].key)
                       < FirstSeen(Items, total_price_by_name[1][j].key)

\* three names, the last two tied, behind a larger total seen last
C10_Witness ==
    /\ total_price_by_name # None
    /\ Len(total_price_by_name[1]) = 3
    /\ total_price_by_name[1][2].total = total_price_by_name[1][3].total
    /\ total_price_by_name[1][1].total > total_price_by_name[1][2].total
    /\ FirstSeen(Items, total_price_by_name[1][1].key) = 3

====
